---- MODULE Spec2Model ----
(***************************************************************************)
(* Model of lib/scoring.py: the scoring and reward library of the          *)
(* competition.  The library is a set of pure facade functions; a state of *)
(* the model is one call: the operation, its challenge number, its         *)
(* arguments and what the call produced (a value or a raised exception).   *)
(*                                                                         *)
(* Number representation.                                                  *)
(*   Float   [k, n, d]   k = "num": the value n/d (reduced, d > 0)         *)
(*                       k = "nan": not-a-number; k = "inf": n = 1 or -1   *)
(*   Surd    [k, p, q]   k = "surd": the value p - sqrt(q), p and q        *)
(*                       rationals (results that involve a square root)    *)
(*   Decimal [k, n, d]   k = "fin": the exact value n/d; k = "NaN"         *)
(*   Reward  [ip, frac]  a quantized Decimal: integer part and the         *)
(*                       sequence of its fractional decimal digits         *)
(* Floats are modelled by the rationals they stand for.  The floats that    *)
(* are converted to Decimal (scores, normalized ranks of up to three       *)
(* participants) are binary fractions, for which Decimal(float) is exact.  *)
(* Decimal arithmetic is modelled exactly.  The default context keeps 28   *)
(* significant digits: the products and sums of the inputs used here have  *)
(* far fewer, and a quotient a / b rounded to 28 digits has the same first *)
(* 10 decimal digits as a / b itself unless b exceeds 10^14, because its   *)
(* digits after the tenth stay at least 1 / b below a carry.               *)
(***************************************************************************)
EXTENDS Integers, Sequences, FiniteSets

VARIABLES op, cn, args, result

vars == <<op, cn, args, result>>

\* ------------------------------------------------------------------ bounds

MaxParticipants == 3
MaxHistory == 5
MaxPredictions == 3
MaxChallenge == 1
MaxCount == 3
MaxAssets == 2

\* --------------------------------------------------------------- rationals

Abs(x) == IF x < 0 THEN -x ELSE x

RECURSIVE GCD(_, _)
GCD(a, b) == IF b = 0 THEN a ELSE GCD(b, a % b)

Rat(n, d) ==
    LET g == GCD(Abs(n), Abs(d))
        s == IF d < 0 THEN -1 ELSE 1
    IN  [n |-> (s * n) \div g, d |-> (s * d) \div g]

RatInt(i) == [n |-> i, d |-> 1]
RatAdd(a, b) == Rat(a.n * b.d + b.n * a.d, a.d * b.d)
RatSub(a, b) == Rat(a.n * b.d - b.n * a.d, a.d * b.d)
RatMul(a, b) == Rat(a.n * b.n, a.d * b.d)
RatDiv(a, b) == Rat(a.n * b.d, a.d * b.n)
RatLess(a, b) == a.n * b.d < b.n * a.d
RatLeq(a, b) == a.n * b.d <= b.n * a.d

RECURSIVE RatSum(_)
RatSum(s) == IF s = <<>> THEN RatInt(0) ELSE RatAdd(Head(s), RatSum(Tail(s)))

\* ------------------------------------------------------------------ floats

NaN == [k |-> "nan", n |-> 0, d |-> 1]
Inf == [k |-> "inf", n |-> 1, d |-> 1]
Num(n, d) == LET r == Rat(n, d) IN [k |-> "num", n |-> r.n, d |-> r.d]
FloatOf(r) == [k |-> "num", n |-> r.n, d |-> r.d]
RatOf(x) == [n |-> x.n, d |-> x.d]

isnan(x) == x.k = "nan"
isfinite(x) == x.k = "num"

\* x - y on floats (IEEE: nan propagates, inf - inf is nan)
FloatSub(x, y) ==
    CASE isnan(x) \/ isnan(y) -> NaN
      [] x.k = "inf" /\ y.k = "inf" -> IF x.n = y.n THEN NaN ELSE x
      [] x.k = "inf" -> x
      [] y.k = "inf" -> [y EXCEPT !.n = -y.n]
      [] OTHER -> FloatOf(RatSub(RatOf(x), RatOf(y)))

\* x / y on numpy floats: a zero divisor gives nan or an infinity (a warning,
\* no exception)
FloatDiv(x, y) ==
    CASE isnan(x) \/ isnan(y) -> NaN
      [] x.k = "inf" /\ y.k = "inf" -> NaN
      [] x.k = "inf" -> IF y.n < 0 THEN [x EXCEPT !.n = -x.n] ELSE x
      [] y.k = "inf" -> Num(0, 1)
      [] y.n = 0 -> IF x.n = 0 THEN NaN
                    ELSE [k |-> "inf", n |-> IF x.n > 0 THEN 1 ELSE -1, d |-> 1]
      [] OTHER -> FloatOf(RatDiv(RatOf(x), RatOf(y)))

\* the order of two floats that are not nan
FloatLess(x, y) ==
    CASE x.k = "inf" -> x.n < 0 /\ ~(y.k = "inf" /\ y.n < 0)
      [] y.k = "inf" -> y.n > 0
      [] OTHER -> RatLess(RatOf(x), RatOf(y))

\* -------------------------------------------------------------- exceptions

Ok(v) == [status |-> "ok", val |-> v]
Raise(e) == [status |-> e, val |-> <<>>]

\* ------------------------------------------------------ validate_prediction

\* the validation without the count of the predictions
validate_prediction_no_count(assets, predictions) ==
    LET predicted_assets == {predictions[i][1] : i \in DOMAIN predictions}
    IN  IF {assets[i] : i \in DOMAIN assets} # predicted_assets THEN FALSE
        ELSE ~(\E i \in DOMAIN predictions : predictions[i][2].k = "NaN")

\* a prediction is a pair <<asset, value>>, the value a Decimal
validate_prediction(assets, predictions) ==
    LET predicted_assets == {predictions[i][1] : i \in DOMAIN predictions}
    IN  IF {assets[i] : i \in DOMAIN assets} # predicted_assets THEN FALSE
        ELSE IF Len(assets) # Len(predictions) THEN FALSE
        ELSE ~(\E i \in DOMAIN predictions : predictions[i][2].k = "NaN")

\* ------------------------------------------------------------ Scorer.get

\* the lookup refusing challenge 0 as well
Scorer_get_positive(challenge_number) ==
    IF challenge_number <= 0 THEN "LookupError" ELSE "Scorer1"

Scorer_get(challenge_number) ==
    IF challenge_number < 0 THEN "LookupError" ELSE "Scorer1"

\* ----------------------------------------------------------------- ranking

\* np.count_nonzero(~np.isnan(xs))
count_not_nan(xs) == Cardinality({i \in DOMAIN xs : ~isnan(xs[i])})

\* np.ma.masked_invalid(xs): the mask is set where the value is nan or infinite
masked_invalid(xs) == [i \in DOMAIN xs |-> ~isfinite(xs[i])]

\* mstats.rankdata: ascending ranks from 1 among the unmasked values, tied values
\* share the mean of the positions they occupy, masked values get rank 0
rankdata(xs, mask) ==
    [i \in DOMAIN xs |->
        IF mask[i] THEN Num(0, 1)
        ELSE LET lt == Cardinality({j \in DOMAIN xs : ~mask[j] /\ FloatLess(xs[j], xs[i])})
                 eq == Cardinality({j \in DOMAIN xs : ~mask[j] /\ xs[j] = xs[i]})
             IN  Num(2 * lt + eq + 1, 2)]

\* ranks[ranks == 0] = np.nan
zero_to_nan(ranks) == [i \in DOMAIN ranks |-> IF ranks[i] = Num(0, 1) THEN NaN ELSE ranks[i]]

masked_ranks(xs) == zero_to_nan(rankdata(xs, masked_invalid(xs)))

\* ------------------------------------------------ challenge scores (Scorer1)

Scorer1_compute_challenge_scores(participants_errors) ==
    LET n == count_not_nan(participants_errors)
        ranks == masked_ranks(participants_errors)
    IN  IF n = 0 THEN <<>>
        ELSE [i \in DOMAIN ranks |->
                 FloatDiv(FloatSub(Num(n, 1), ranks[i]), Num(n - 1, 1))]

compute_challenge_scores(challenge_number, participants_errors) ==
    IF Scorer_get(challenge_number) = "LookupError" THEN Raise("LookupError")
    ELSE Ok(Scorer1_compute_challenge_scores(participants_errors))

\* ---------------------------------------------- competition score (Scorer1)

STDDEV_PENALTY == [n |-> 1, d |-> 10]
SKIP_PENALTY == [n |-> 1, d |-> 10]

\* p - sqrt(q); NaNSurd is the missing result
Surd(p, q) == [k |-> "surd", p |-> p, q |-> q]
NaNSurd == [k |-> "nan", p |-> RatInt(0), q |-> RatInt(0)]

\* the entries of xs that are not nan, in order
RECURSIVE not_nan(_)
not_nan(xs) ==
    IF xs = <<>> THEN <<>>
    ELSE IF isnan(Head(xs)) THEN not_nan(Tail(xs))
         ELSE <<RatOf(Head(xs))>> \o not_nan(Tail(xs))

\* np.nanmean
nanmean(xs) == LET v == not_nan(xs) IN RatDiv(RatSum(v), RatInt(Len(v)))

\* np.nanstd squared: the mean of the squared deviations from the nanmean
nanvar(xs) ==
    LET v == not_nan(xs)
        m == nanmean(xs)
        dev2 == [i \in DOMAIN v |-> RatMul(RatSub(v[i], m), RatSub(v[i], m))]
    IN  RatDiv(RatSum(dev2), RatInt(Len(v)))

\* max(a - (b + c), 0) with b = sqrt(b2)
max_with_zero(a, b2, c) ==
    LET p == RatSub(a, c)
    IN  IF RatLess(p, RatInt(0)) \/ RatLess(RatMul(p, p), b2)
        THEN Surd(RatInt(0), RatInt(0))
        ELSE Surd(p, b2)

\* challenge_scores[:4], the first entries instead of the last
first_four(challenge_scores) ==
    SubSeq(challenge_scores, 1, IF Len(challenge_scores) > 4 THEN 4 ELSE Len(challenge_scores))

\* challenge_scores[-4:]
last_four(challenge_scores) ==
    LET len == Len(challenge_scores)
    IN  SubSeq(challenge_scores, IF len > 4 THEN len - 3 ELSE 1, len)

Scorer1_compute_competition_score(challenge_scores) ==
    LET scores == last_four(challenge_scores)
        num_skips == (4 - Len(scores))
                       + Cardinality({i \in DOMAIN scores : isnan(scores[i])})
    IN  IF num_skips = 4 THEN NaNSurd
        ELSE LET a == nanmean(scores)
                 f == RatMul(STDDEV_PENALTY, RatInt(2))
                 b2 == RatMul(RatMul(f, f), nanvar(scores))
                 c == RatDiv(RatMul(SKIP_PENALTY, RatInt(num_skips)), RatInt(3))
             IN  max_with_zero(a, b2, c)

compute_competition_score(challenge_number, challenge_scores) ==
    IF Scorer_get(challenge_number) = "LookupError" THEN Raise("LookupError")
    ELSE Ok(Scorer1_compute_competition_score(challenge_scores))

\* ---------------------------------------------------------------- decimals

REWARD_PRECISION == 10

Dec(n, d) == LET r == Rat(n, d) IN [k |-> "fin", n |-> r.n, d |-> r.d]
DecNaN == [k |-> "NaN", n |-> 0, d |-> 1]
\* the marker of a Decimal operation that raised decimal.InvalidOperation
DecInvalid == [k |-> "InvalidOperation", n |-> 0, d |-> 1]

\* dec(x) = Decimal(x): the exact value of a float, NaN for nan
dec(x) == IF isnan(x) THEN DecNaN ELSE Dec(x.n, x.d)

\* a - b: a quiet NaN operand gives NaN
DecSub(a, b) ==
    IF a.k = "NaN" \/ b.k = "NaN" THEN DecNaN
    ELSE LET r == RatSub(RatOf(a), RatOf(b)) IN Dec(r.n, r.d)

\* the builtin max(a, b) on Decimals: it evaluates b > a, and an ordering
\* comparison with NaN raises decimal.InvalidOperation
py_max(a, b) ==
    IF a.k = "NaN" \/ b.k = "NaN" THEN DecInvalid
    ELSE IF RatLess(RatOf(a), RatOf(b)) THEN b ELSE a

\* sum(factors)
RECURSIVE DecSum(_)
DecSum(s) == IF s = <<>> THEN RatInt(0) ELSE RatAdd(RatOf(Head(s)), DecSum(Tail(s)))

\* ------------------------------------------------ arithmetic on rewards

\* [0] * len(...): the int 0 per participant
ZeroReward == [ip |-> 0, frac |-> <<>>]

\* the fraction of a reward, zeros restored up to REWARD_PRECISION digits
RECURSIVE Pad(_)
Pad(digits) == IF Len(digits) >= REWARD_PRECISION THEN digits ELSE Pad(Append(digits, 0))

\* column addition, from the last digit: the digits and the carry out
RECURSIVE AddDigits(_, _, _)
AddDigits(a, b, carry) ==
    IF a = <<>> THEN [digits |-> <<>>, carry |-> carry]
    ELSE LET n == Len(a)
             col == a[n] + b[n] + carry
             rest == AddDigits(SubSeq(a, 1, n - 1), SubSeq(b, 1, n - 1), col \div 10)
         IN  [digits |-> Append(rest.digits, col % 10), carry |-> rest.carry]

\* multiplication of a digit sequence by a natural number m
RECURSIVE MulDigits(_, _, _)
MulDigits(a, m, carry) ==
    IF a = <<>> THEN [digits |-> <<>>, carry |-> carry]
    ELSE LET n == Len(a)
             col == a[n] * m + carry
             rest == MulDigits(SubSeq(a, 1, n - 1), m, col \div 10)
         IN  [digits |-> Append(rest.digits, col % 10), carry |-> rest.carry]

RewardAdd(x, y) ==
    LET t == AddDigits(Pad(x.frac), Pad(y.frac), 0)
    IN  [ip |-> x.ip + y.ip + t.carry, frac |-> t.digits]

RewardTimes(x, m) ==
    LET t == MulDigits(Pad(x.frac), m, 0)
    IN  [ip |-> x.ip * m + t.carry, frac |-> t.digits]

RECURSIVE RewardSum(_)
RewardSum(rs) == IF rs = <<>> THEN ZeroReward ELSE RewardAdd(Head(rs), RewardSum(Tail(rs)))

DigitsLess(a, b) ==
    \E j \in DOMAIN a : a[j] < b[j] /\ \A i \in 1 .. j - 1 : a[i] = b[i]

RewardLess(x, y) ==
    x.ip < y.ip \/ (x.ip = y.ip /\ DigitsLess(Pad(x.frac), Pad(y.frac)))
RewardEq(x, y) == x.ip = y.ip /\ Pad(x.frac) = Pad(y.frac)
RewardLeq(x, y) == RewardLess(x, y) \/ RewardEq(x, y)

IntReward(i) == [ip |-> i, frac |-> <<>>]
\* one unit of the last decimal place, 10^-REWARD_PRECISION
Unit == [ip |-> 0, frac |-> [i \in 1 .. REWARD_PRECISION |-> IF i = REWARD_PRECISION THEN 1 ELSE 0]]

\* the first k decimal digits of rem / den, 0 <= rem < den
RECURSIVE FracDigits(_, _, _)
FracDigits(rem, den, k) ==
    IF k = 0 THEN <<>>
    ELSE <<(rem * 10) \div den>> \o FracDigits((rem * 10) % den, den, k - 1)

\* the remainder left after k decimal digits of rem / den
RECURSIVE RemAfter(_, _, _)
RemAfter(rem, den, k) == IF k = 0 THEN rem ELSE RemAfter((rem * 10) % den, den, k - 1)

\* quantize with the context's default rounding (ROUND_HALF_EVEN), as when the
\* rounding argument is left out
quantize_half_even(x) ==
    LET t == [ip |-> x.n \div x.d, frac |-> FracDigits(x.n % x.d, x.d, REWARD_PRECISION)]
        rem == RemAfter(x.n % x.d, x.d, REWARD_PRECISION)
        up == 2 * rem > x.d \/ (2 * rem = x.d /\ t.frac[REWARD_PRECISION] % 2 = 1)
    IN  IF up THEN RewardAdd(t, Unit) ELSE t

\* x.quantize(Decimal(REWARD_PRECISION), rounding=ROUND_DOWN) for x >= 0: the
\* integer part and the first 10 fractional digits, the rest dropped
quantize(x) ==
    [ip |-> x.n \div x.d, frac |-> FracDigits(x.n % x.d, x.d, REWARD_PRECISION)]

\* x.normalize(): trailing zeros of the fraction stripped, the value unchanged
RECURSIVE strip_zeros(_)
strip_zeros(digits) ==
    IF digits # <<>> /\ digits[Len(digits)] = 0
    THEN strip_zeros(SubSeq(digits, 1, Len(digits) - 1))
    ELSE digits

normalize(x) == [ip |-> x.ip, frac |-> strip_zeros(x.frac)]

\* ----------------------------------------------------- Scorer1.__distribute

\* (pool * factor) / total: a zero total raises (0 / 0 is InvalidOperation,
\* x / 0 is DivisionByZero); otherwise the quotient, quantized and normalized
Scorer1_distribute(factors, pool) ==
    LET total == DecSum(factors)
    IN  IF factors = <<>> THEN Ok(<<>>)
        ELSE IF total.n = 0
        THEN Raise(IF pool.n * factors[1].n = 0 THEN "InvalidOperation"
                   ELSE "DivisionByZero")
        ELSE Ok([i \in DOMAIN factors |->
                   normalize(quantize(RatDiv(RatMul(RatOf(pool), RatOf(factors[i])),
                                             total)))])

\* the factors, or the exception one of them raised
WithFactors(factors, pool) ==
    IF \E i \in DOMAIN factors : factors[i].k = "InvalidOperation"
    THEN Raise("InvalidOperation")
    ELSE Scorer1_distribute(factors, pool)

\* ------------------------------------------------------- rewards (Scorer1)

challenge_factors(challenge_scores) ==
    [i \in DOMAIN challenge_scores |->
        LET score == IF ~isnan(challenge_scores[i]) THEN challenge_scores[i]
                     ELSE Num(0, 1)
        IN  py_max(DecSub(dec(score), Dec(25, 100)), Dec(0, 1))]

Scorer1_compute_challenge_rewards(challenge_scores, challenge_pool) ==
    WithFactors(challenge_factors(challenge_scores), challenge_pool)

\* (r - 1) / (n - 1) for a ranked participant, 0 for a missing one
normalized_ranks(competition_scores) ==
    LET n == count_not_nan(competition_scores)
        ranks == masked_ranks(competition_scores)
    IN  [i \in DOMAIN ranks |->
            IF ~isnan(ranks[i])
            THEN FloatDiv(FloatSub(ranks[i], Num(1, 1)), Num(n - 1, 1))
            ELSE Num(0, 1)]

competition_factors(competition_scores) ==
    LET ranks == normalized_ranks(competition_scores)
    IN  [i \in DOMAIN ranks |-> py_max(DecSub(dec(ranks[i]), Dec(5, 10)), Dec(0, 1))]

Scorer1_compute_competition_rewards(competition_scores, competition_pool) ==
    IF count_not_nan(competition_scores) = 0
    THEN Ok([i \in DOMAIN competition_scores |-> ZeroReward])
    ELSE WithFactors(competition_factors(competition_scores), competition_pool)

\* the stakes passed through the threshold of the challenge rewards
stake_rewards_thresholded(stakes, stake_pool) ==
    Scorer1_distribute([i \in DOMAIN stakes |->
                           py_max(DecSub(stakes[i], Dec(25, 100)), Dec(0, 1))],
                       stake_pool)

Scorer1_compute_stake_rewards(stakes, stake_pool) ==
    Scorer1_distribute(stakes, stake_pool)

compute_challenge_rewards(challenge_number, challenge_scores, challenge_pool) ==
    IF Scorer_get(challenge_number) = "LookupError" THEN Raise("LookupError")
    ELSE Scorer1_compute_challenge_rewards(challenge_scores, challenge_pool)

compute_competition_rewards(challenge_number, competition_scores, competition_pool) ==
    IF Scorer_get(challenge_number) = "LookupError" THEN Raise("LookupError")
    ELSE Scorer1_compute_competition_rewards(competition_scores, competition_pool)

compute_stake_rewards(challenge_number, stakes, stake_pool) ==
    IF Scorer_get(challenge_number) = "LookupError" THEN Raise("LookupError")
    ELSE Scorer1_compute_stake_rewards(stakes, stake_pool)

\* ------------------------------------------------- challenge error (Scorer1)

\* sqrt(q), the root of a rational q >= 0
Root(q) == [k |-> "root", q |-> q]

\* mean_squared_error(predictions, assets_values, squared=False): sklearn raises
\* ValueError for arrays that are empty or of different lengths
Scorer1_compute_challenge_error(predictions, assets_values) ==
    IF Len(predictions) # Len(assets_values) \/ Len(predictions) = 0
    THEN Raise("ValueError")
    ELSE LET sq == [i \in DOMAIN predictions |->
                      LET e == RatSub(RatOf(predictions[i]), RatOf(assets_values[i]))
                      IN  RatMul(e, e)]
         IN  Ok(Root(RatDiv(RatSum(sq), RatInt(Len(sq)))))

compute_challenge_error(challenge_number, predictions, assets_values) ==
    IF Scorer_get(challenge_number) = "LookupError" THEN Raise("LookupError")
    ELSE Scorer1_compute_challenge_error(predictions, assets_values)

\* ----------------------------------------------------------- pools (Scorer1)

TOTAL_WEEKLY_POOL == Dec(200000, 1)
UNIT_WEEKLY_POOL == Dec(200, 1)
CHALLENGE_REWARD_PERC == Dec(2, 10)
COMPETITION_REWARD_PERC == Dec(6, 10)
STAKE_REWARD_PERC == Dec(2, 10)

DecOf(r) == Dec(r.n, r.d)
DecMul(a, b) == DecOf(RatMul(RatOf(a), RatOf(b)))
DecAdd(a, b) == DecOf(RatAdd(RatOf(a), RatOf(b)))

Scorer1_compute_challenge_pool(num_predictors) ==
    DecMul(DecMul(UNIT_WEEKLY_POOL, CHALLENGE_REWARD_PERC), Dec(num_predictors, 1))

Scorer1_compute_competition_pool(num_predictors) ==
    DecMul(DecMul(UNIT_WEEKLY_POOL, COMPETITION_REWARD_PERC), Dec(num_predictors, 1))

Scorer1_compute_stake_pool(num_stakers) ==
    DecMul(DecMul(UNIT_WEEKLY_POOL, STAKE_REWARD_PERC), Dec(num_stakers, 1))

Scorer1_compute_pool_surplus(num_predictors, num_stakers) ==
    DecSub(TOTAL_WEEKLY_POOL,
           DecAdd(DecAdd(Scorer1_compute_challenge_pool(num_predictors),
                         Scorer1_compute_competition_pool(num_predictors)),
                  Scorer1_compute_stake_pool(num_stakers)))

compute_challenge_pool(challenge_number, num_predictors) ==
    IF Scorer_get(challenge_number) = "LookupError" THEN Raise("LookupError")
    ELSE Ok(Scorer1_compute_challenge_pool(num_predictors))

compute_competition_pool(challenge_number, num_predictors) ==
    IF Scorer_get(challenge_number) = "LookupError" THEN Raise("LookupError")
    ELSE Ok(Scorer1_compute_competition_pool(num_predictors))

compute_stake_pool(challenge_number, num_stakers) ==
    IF Scorer_get(challenge_number) = "LookupError" THEN Raise("LookupError")
    ELSE Ok(Scorer1_compute_stake_pool(num_stakers))

compute_pool_surplus(challenge_number, num_predictors, num_stakers) ==
    IF Scorer_get(challenge_number) = "LookupError" THEN Raise("LookupError")
    ELSE Ok(Scorer1_compute_pool_surplus(num_predictors, num_stakers))

\* ------------------------------------------------------------------ inputs

ChallengeNumbers == -1 .. MaxChallenge

SeqsUpTo(S, n) == UNION {[1 .. m -> S] : m \in 0 .. n}

ErrorValues == {NaN, Inf, Num(1, 1), Num(2, 1), Num(3, 1)}

HistoryValues == {NaN, Num(0, 1), Num(4, 5), Num(1, 1)}

\* scores on the binary grid, where Decimal(score) is the score exactly
ChallengeScoreValues == {NaN, Num(0, 1), Num(1, 4), Num(1, 2), Num(3, 4), Num(1, 1)}
CompetitionScoreValues == {NaN, Num(0, 1), Num(1, 2), Num(1, 1)}
StakeValues == {Dec(0, 1), Dec(1, 1), Dec(2, 1), Dec(100, 1), Dec(200, 1), Dec(700, 1)}
PoolValues == {Dec(0, 1), Dec(1, 1), Dec(5, 2), Dec(1000, 1)}

AssetNames == {"A", "B"}
PredictedValues == {Dec(1, 1), Dec(2, 1), DecNaN}
AssetValues == {Dec(0, 1), Dec(1, 1), Dec(3, 1)}
Counts == 0 .. MaxCount

\* ----------------------------------------------------------------- actions

Init ==
    /\ op = "none"
    /\ cn = 0
    /\ args = <<>>
    /\ result = Ok(<<>>)

\* The library keeps nothing between calls: a call starts from the idle state
\* (op = "none") and the caller's return brings the state back to it.
Idle == op = "none"

Return ==
    /\ ~Idle
    /\ op' = "none"
    /\ cn' = 0
    /\ args' = <<>>
    /\ result' = Ok(<<>>)

ComputeChallengeScores ==
    /\ Idle
    /\ \E c \in ChallengeNumbers, errors \in SeqsUpTo(ErrorValues, MaxParticipants) :
        /\ op' = "compute_challenge_scores"
        /\ cn' = c
        /\ args' = <<errors>>
        /\ result' = compute_challenge_scores(c, errors)

ComputeCompetitionScore ==
    /\ Idle
    /\ \E c \in ChallengeNumbers, history \in SeqsUpTo(HistoryValues, MaxHistory) :
        /\ op' = "compute_competition_score"
        /\ cn' = c
        /\ args' = <<history>>
        /\ result' = compute_competition_score(c, history)

ComputeChallengeRewards ==
    /\ Idle
    /\ \E c \in ChallengeNumbers, pool \in PoolValues,
       scores \in SeqsUpTo(ChallengeScoreValues, MaxParticipants) :
        /\ op' = "compute_challenge_rewards"
        /\ cn' = c
        /\ args' = <<scores, pool>>
        /\ result' = compute_challenge_rewards(c, scores, pool)

ComputeCompetitionRewards ==
    /\ Idle
    /\ \E c \in ChallengeNumbers, pool \in PoolValues,
       scores \in SeqsUpTo(CompetitionScoreValues, MaxParticipants) :
        /\ op' = "compute_competition_rewards"
        /\ cn' = c
        /\ args' = <<scores, pool>>
        /\ result' = compute_competition_rewards(c, scores, pool)

ComputeStakeRewards ==
    /\ Idle
    /\ \E c \in ChallengeNumbers, pool \in PoolValues,
       stakes \in SeqsUpTo(StakeValues, MaxParticipants) :
        /\ op' = "compute_stake_rewards"
        /\ cn' = c
        /\ args' = <<stakes, pool>>
        /\ result' = compute_stake_rewards(c, stakes, pool)

ValidatePrediction ==
    /\ Idle
    /\ \E assets \in SeqsUpTo(AssetNames, MaxAssets),
       predictions \in SeqsUpTo(AssetNames \X PredictedValues, MaxPredictions) :
        /\ op' = "validate_prediction"
        /\ cn' = 0
        /\ args' = <<assets, predictions>>
        /\ result' = Ok(validate_prediction(assets, predictions))

ComputeChallengeError ==
    /\ Idle
    /\ \E c \in ChallengeNumbers,
       predictions \in SeqsUpTo(AssetValues, MaxAssets),
       assets_values \in SeqsUpTo(AssetValues, MaxAssets) :
        /\ op' = "compute_challenge_error"
        /\ cn' = c
        /\ args' = <<predictions, assets_values>>
        /\ result' = compute_challenge_error(c, predictions, assets_values)

ComputeChallengePool ==
    /\ Idle
    /\ \E c \in ChallengeNumbers, num_predictors \in Counts :
        /\ op' = "compute_challenge_pool"
        /\ cn' = c
        /\ args' = <<num_predictors>>
        /\ result' = compute_challenge_pool(c, num_predictors)

ComputeCompetitionPool ==
    /\ Idle
    /\ \E c \in ChallengeNumbers, num_predictors \in Counts :
        /\ op' = "compute_competition_pool"
        /\ cn' = c
        /\ args' = <<num_predictors>>
        /\ result' = compute_competition_pool(c, num_predictors)

ComputeStakePool ==
    /\ Idle
    /\ \E c \in ChallengeNumbers, num_stakers \in Counts :
        /\ op' = "compute_stake_pool"
        /\ cn' = c
        /\ args' = <<num_stakers>>
        /\ result' = compute_stake_pool(c, num_stakers)

ComputePoolSurplus ==
    /\ Idle
    /\ \E c \in ChallengeNumbers, num_predictors \in Counts, num_stakers \in Counts :
        /\ op' = "compute_pool_surplus"
        /\ cn' = c
        /\ args' = <<num_predictors, num_stakers>>
        /\ result' = compute_pool_surplus(c, num_predictors, num_stakers)

Next ==
    \/ ValidatePrediction
    \/ ComputeChallengeError
    \/ ComputeChallengePool
    \/ ComputeCompetitionPool
    \/ ComputeStakePool
    \/ ComputePoolSurplus
    \/ ComputeChallengeScores
    \/ ComputeChallengeRewards
    \/ ComputeCompetitionRewards
    \/ ComputeStakeRewards
    \/ ComputeCompetitionScore
    \/ Return

Spec == Init /\ [][Next]_vars

\* ------------------------------------------------------------ challenge scores

ScoresCall == op = "compute_challenge_scores" /\ cn >= 0
Errors == args[1]

\* twice the ascending rank of entry i among the entries that are not nan, tied
\* entries sharing the mean of their positions
ClaimRank2(xs, i) ==
    LET lt == Cardinality({j \in DOMAIN xs : ~isnan(xs[j]) /\ FloatLess(xs[j], xs[i])})
        eq == Cardinality({j \in DOMAIN xs : ~isnan(xs[j]) /\ xs[j] = xs[i]})
    IN  2 * lt + eq + 1

\* C3: with n >= 2 errors that are not missing, the call returns one score per
\* participant, in input order: (n - r) / (n - 1) for an error that is not missing,
\* r its tie-averaged ascending rank among the errors that are not missing, and a
\* missing score for a missing error; [1, 2, 3] gives [1, 0.5, 0] and
\* [1, missing, 1] gives [0.5, missing, 0.5].
C3_ScoreByRank ==
    (ScoresCall /\ count_not_nan(Errors) >= 2) =>
        LET n == count_not_nan(Errors) IN
        /\ result.status = "ok"
        /\ DOMAIN result.val = DOMAIN Errors
        /\ \A i \in DOMAIN Errors :
              IF isnan(Errors[i]) THEN isnan(result.val[i])
              ELSE result.val[i] = Num(2 * n - ClaimRank2(Errors, i), 2 * (n - 1))
        /\ (Errors = <<Num(1, 1), Num(2, 1), Num(3, 1)>>
               => result.val = <<Num(1, 1), Num(1, 2), Num(0, 1)>>)
        /\ (Errors = <<Num(1, 1), NaN, Num(1, 1)>>
               => result.val = <<Num(1, 2), NaN, Num(1, 2)>>)

NoInfiniteError == \A i \in DOMAIN Errors : Errors[i].k # "inf"

\* The same statement for errors that are all finite or missing: it holds.
C3_FiniteErrors ==
    (ScoresCall /\ NoInfiniteError) => C3_ScoreByRank

\* C4: every participant whose error is not missing gets a score that is a
\* number in [0, 1], whatever the number of such participants (one included).
\* Stated here for the calls whose errors are all finite or missing, the
\* narrowest reading of "defined".
C4_ScoreBounds ==
    (ScoresCall /\ NoInfiniteError) =>
        /\ result.status = "ok"
        /\ \A i \in DOMAIN Errors :
              ~isnan(Errors[i]) =>
                  /\ i \in DOMAIN result.val
                  /\ result.val[i].k = "num"
                  /\ RatLeq(RatInt(0), RatOf(result.val[i]))
                  /\ RatLeq(RatOf(result.val[i]), RatInt(1))

\* The same bound when at least two errors are finite: it holds.
C4_TwoFinite ==
    (ScoresCall /\ count_not_nan(Errors) >= 2) => C4_ScoreBounds

\* ----------------------------------------------------------- competition score

CompetitionScoreCall == op = "compute_competition_score" /\ cn >= 0
History == args[1]

\* the positions of the last four entries of the history
WindowIdx(h) == {i \in DOMAIN h : i > Len(h) - 4}
PresentIdx(h) == {i \in WindowIdx(h) : ~isnan(h[i])}

RECURSIVE SumOver(_, _)
SumOver(f, S) ==
    IF S = {} THEN RatInt(0)
    ELSE LET i == CHOOSE j \in S : TRUE IN RatAdd(f[i], SumOver(f, S \ {i}))

\* mean and population variance (mean of squares minus square of mean) of the
\* scores of the window that are not missing
ClaimMean(h) ==
    RatDiv(SumOver([i \in DOMAIN h |-> RatOf(h[i])], PresentIdx(h)),
           RatInt(Cardinality(PresentIdx(h))))
ClaimVar(h) ==
    RatSub(RatDiv(SumOver([i \in DOMAIN h |-> RatMul(RatOf(h[i]), RatOf(h[i]))],
                          PresentIdx(h)),
                  RatInt(Cardinality(PresentIdx(h)))),
           RatMul(ClaimMean(h), ClaimMean(h)))
ClaimSkips(h) == (4 - Cardinality(WindowIdx(h)))
                   + Cardinality(WindowIdx(h) \ PresentIdx(h))

\* C5: the competition score depends only on the last 4 entries of the history;
\* it is missing exactly when the 4 window slots are all skips; otherwise it is
\* max(mean - (0.1 * 2 * stddev + 0.1 * skips / 3), 0) over the window scores that
\* are not missing, so it lies in [0, 1]; [0.8, 0.8, 0.8, 0.8] gives 0.8.
C5_CompetitionScore ==
    CompetitionScoreCall =>
        LET h == History
            r == result.val
            t == RatSub(ClaimMean(h), Rat(ClaimSkips(h), 30))
            q == RatMul(Rat(1, 25), ClaimVar(h))
        IN
        /\ result.status = "ok"
        /\ r = Scorer1_compute_competition_score(last_four(h))
        /\ (r.k = "nan") <=> (ClaimSkips(h) = 4)
        /\ ClaimSkips(h) # 4 =>
              /\ r.k = "surd"
              /\ IF RatLeq(RatInt(0), t) /\ RatLeq(q, RatMul(t, t))
                 THEN r.p = t /\ r.q = q
                 ELSE r.p = RatInt(0) /\ r.q = RatInt(0)
              /\ RatLeq(RatInt(0), r.p) /\ RatLeq(r.q, RatMul(r.p, r.p))
              /\ RatLeq(RatInt(0), r.q) /\ RatLeq(r.p, RatInt(1))
        /\ (h = <<Num(4, 5), Num(4, 5), Num(4, 5), Num(4, 5)>>
               => r = Surd(Rat(4, 5), RatInt(0)))

\* a history longer than the window, with a skip in the window and a score that
\* the volatility penalty lowers without flooring it
C5_Witness ==
    /\ CompetitionScoreCall
    /\ Len(History) > 4
    /\ ClaimSkips(History) = 1
    /\ result.val.k = "surd"
    /\ RatLess(RatInt(0), result.val.q)
    /\ RatLess(RatInt(0), result.val.p)

\* ------------------------------------------------------ shares of a pool

\* r is the rational a / b (a >= 0, b > 0) rounded toward zero to
\* REWARD_PRECISION decimal digits:  r * b <= a < (r + unit) * b
Truncates(r, a, b) ==
    /\ RewardLeq(RewardTimes(r, b), IntReward(a))
    /\ RewardLess(IntReward(a), RewardTimes(RewardAdd(r, Unit), b))

\* r is pool * weight / total rounded toward zero to REWARD_PRECISION digits
IsShare(r, pool, weight, total) ==
    Truncates(r, pool.n * weight.n * total.d, pool.d * weight.d * total.n)

\* ---------------------------------------------------------------- stake rewards

StakeCall == op = "compute_stake_rewards" /\ cn >= 0
Stakes == args[1]
Pool == args[2]

\* C1: for a non-empty list of strictly positive factors and a non-negative
\* pool, the rewards sum to at most the pool, and the pool exceeds the sum by at
\* most (number of factors) * 10^-10.
C1_Conservation ==
    (StakeCall /\ Stakes # <<>> /\ \A i \in DOMAIN Stakes : Stakes[i].n > 0) =>
        /\ result.status = "ok"
        /\ LET total == RewardTimes(RewardSum(result.val), Pool.d)
               slack == RewardTimes(Unit, Len(Stakes) * Pool.d)
           IN  /\ RewardLeq(total, IntReward(Pool.n))
               /\ RewardLeq(IntReward(Pool.n), RewardAdd(total, slack))

\* several positive stakes whose shares are truncated: the sum is below the pool
C1_Witness ==
    /\ StakeCall
    /\ Len(Stakes) >= 2
    /\ \A i \in DOMAIN Stakes : Stakes[i].n > 0
    /\ result.status = "ok"
    /\ RewardLess(RewardTimes(RewardSum(result.val), Pool.d), IntReward(Pool.n))

\* C2: the stake reward of participant i is pool * stakes[i] / sum(stakes)
\* rounded toward zero to 10 decimal digits, the stake itself being the weight;
\* stakes [100, 200, 700] with pool 1000 give [100, 200, 700], which sum to the
\* pool.  (Stated where sum(stakes) is not zero, so that the quotient exists.)
C2_StakeShare ==
    (StakeCall /\ DecSum(Stakes).n > 0) =>
        /\ result.status = "ok"
        /\ DOMAIN result.val = DOMAIN Stakes
        /\ \A i \in DOMAIN Stakes :
              IsShare(result.val[i], Pool, Stakes[i], DecSum(Stakes))
        /\ (Stakes = <<Dec(100, 1), Dec(200, 1), Dec(700, 1)>> /\ Pool = Dec(1000, 1))
              => /\ result.val = <<IntReward(100), IntReward(200), IntReward(700)>>
                 /\ RewardEq(RewardSum(result.val), IntReward(1000))

C2_Witness ==
    /\ StakeCall
    /\ Stakes = <<Dec(100, 1), Dec(200, 1), Dec(700, 1)>>
    /\ Pool = Dec(1000, 1)
    /\ result.status = "ok"

\* ------------------------------------------------------------ challenge rewards

ChallengeRewardsCall == op = "compute_challenge_rewards" /\ cn >= 0
Scores == args[1]

\* max(score - 0.25, 0), a missing score counting as 0
ClaimChallengeWeight(score) ==
    IF isnan(score) \/ RatLeq(RatOf(score), Rat(1, 4)) THEN RatInt(0)
    ELSE RatSub(RatOf(score), Rat(1, 4))

ClaimChallengeTotal(scores) ==
    SumOver([i \in DOMAIN scores |-> ClaimChallengeWeight(scores[i])], DOMAIN scores)

\* C7: the challenge rewards split the pool with weight max(score - 0.25, 0), a
\* missing score counting as 0: a participant whose score is missing or at most
\* 0.25 receives reward 0, and every other participant receives
\* pool * (score - 0.25) / (sum of weights) rounded toward zero to 10 digits.
C7_ChallengeRewards ==
    ChallengeRewardsCall =>
        \A i \in DOMAIN Scores :
            /\ result.status = "ok"
            /\ i \in DOMAIN result.val
            /\ IF ClaimChallengeWeight(Scores[i]).n = 0
               THEN RewardEq(result.val[i], ZeroReward)
               ELSE IsShare(result.val[i], Pool, ClaimChallengeWeight(Scores[i]),
                            ClaimChallengeTotal(Scores))

\* The same statement for the calls in which some score exceeds 0.25: it holds.
C7_SomeWeight ==
    (ChallengeRewardsCall /\ ClaimChallengeTotal(Scores).n > 0) => C7_ChallengeRewards

\* ---------------------------------------------------------- competition rewards

CompetitionRewardsCall == op = "compute_competition_rewards" /\ cn >= 0

\* max(normalized_rank - 0.5, 0) with normalized_rank = (rank - 1) / (n - 1) over
\* the n scores that are not missing, 0 for a missing score (n >= 2)
ClaimCompetitionWeight(scores, i) ==
    LET n == count_not_nan(scores)
        nr == Rat(ClaimRank2(scores, i) - 2, 2 * (n - 1))
    IN  IF isnan(scores[i]) \/ RatLeq(nr, Rat(1, 2)) THEN RatInt(0)
        ELSE RatSub(nr, Rat(1, 2))

ClaimCompetitionTotal(scores) ==
    SumOver([i \in DOMAIN scores |-> ClaimCompetitionWeight(scores, i)], DOMAIN scores)

\* C6: the competition rewards split the pool with weight
\* max(normalized_rank - 0.5, 0); a participant with a missing competition score
\* has weight 0 and receives reward 0, and a participant with a strictly higher
\* competition score never receives a smaller reward than one with a lower score.
C6_CompetitionRewards ==
    CompetitionRewardsCall =>
        /\ \A i \in DOMAIN Scores :
              isnan(Scores[i]) =>
                  /\ result.status = "ok"
                  /\ i \in DOMAIN result.val
                  /\ RewardEq(result.val[i], ZeroReward)
        /\ \A i, j \in DOMAIN Scores :
              (~isnan(Scores[i]) /\ ~isnan(Scores[j]) /\ FloatLess(Scores[j], Scores[i])) =>
                  /\ result.status = "ok"
                  /\ RewardLeq(result.val[j], result.val[i])
        /\ count_not_nan(Scores) >= 2 =>
              /\ result.status = "ok"
              /\ \A i \in DOMAIN Scores :
                    IF ClaimCompetitionWeight(Scores, i).n = 0
                    THEN RewardEq(result.val[i], ZeroReward)
                    ELSE IsShare(result.val[i], Pool, ClaimCompetitionWeight(Scores, i),
                                 ClaimCompetitionTotal(Scores))

\* The same statement for the calls with at least two scores that are not
\* missing and a participant ranked above the middle: it holds.
C6_SomeWeight ==
    (CompetitionRewardsCall /\ count_not_nan(Scores) >= 2
        /\ ClaimCompetitionTotal(Scores).n > 0) => C6_CompetitionRewards

\* ------------------------------------------------------------------- totality

RewardCall ==
    /\ op \in {"compute_challenge_rewards", "compute_competition_rewards",
                "compute_stake_rewards"}
    /\ cn >= 0

\* C9: for a non-negative challenge number, a non-negative pool and a non-empty
\* list of scores or non-negative stakes, each reward computation returns, without
\* failing, one non-negative reward per participant.
C9_Total ==
    (RewardCall /\ args[1] # <<>>) =>
        /\ result.status = "ok"
        /\ DOMAIN result.val = DOMAIN args[1]
        /\ \A i \in DOMAIN result.val : RewardLeq(ZeroReward, result.val[i])

\* A reward call fails exactly when it has to divide by a zero sum of weights or
\* to rank a single competition score.
C9_FailsOnlyOnZeroTotal ==
    (RewardCall /\ args[1] # <<>>) =>
        (result.status # "ok" <=>
            CASE op = "compute_stake_rewards" -> DecSum(Stakes).n = 0
              [] op = "compute_challenge_rewards" -> ClaimChallengeTotal(Scores).n = 0
              [] OTHER -> \/ count_not_nan(Scores) = 1
                          \/ (count_not_nan(Scores) >= 2
                                /\ ClaimCompetitionTotal(Scores).n = 0))

\* ------------------------------------------------------------- validation

ValidateCall == op = "validate_prediction"
Assets == args[1]
Predictions == args[2]

NoRepeatedAsset == \A i, j \in DOMAIN Assets : Assets[i] = Assets[j] => i = j

Facade(o, c, a) ==
    CASE o = "compute_challenge_error" -> compute_challenge_error(c, a[1], a[2])
      [] o = "compute_challenge_scores" -> compute_challenge_scores(c, a[1])
      [] o = "compute_competition_score" -> compute_competition_score(c, a[1])
      [] o = "compute_challenge_rewards" -> compute_challenge_rewards(c, a[1], a[2])
      [] o = "compute_competition_rewards" -> compute_competition_rewards(c, a[1], a[2])
      [] o = "compute_stake_rewards" -> compute_stake_rewards(c, a[1], a[2])
      [] o = "compute_challenge_pool" -> compute_challenge_pool(c, a[1])
      [] o = "compute_competition_pool" -> compute_competition_pool(c, a[1])
      [] o = "compute_stake_pool" -> compute_stake_pool(c, a[1])
      [] o = "compute_pool_surplus" -> compute_pool_surplus(c, a[1], a[2])

VersionedCall == op \notin {"none", "validate_prediction"}

\* C10: a facade operation called with a negative challenge number fails with a
\* lookup error and yields no value; called with a non-negative one it never
\* fails with a lookup error, and its result is the one it gives for challenge 0.
C10_VersionLookup ==
    VersionedCall =>
        /\ cn < 0 => result = [status |-> "LookupError", val |-> <<>>]
        /\ cn >= 0 => /\ result.status # "LookupError"
                       /\ result = Facade(op, 0, args)

\* a reward call with well-formed arguments refused for its challenge number
C10_Witness ==
    /\ op = "compute_stake_rewards"
    /\ cn < 0
    /\ Stakes = <<Dec(100, 1), Dec(200, 1), Dec(700, 1)>>
    /\ result.status = "LookupError"

====
